---- MODULE Spec2Model ----
(***************************************************************************)
(* Model of brno-grep.py: a line-oriented regular-expression search with   *)
(* four output styles (plain, highlighted, underscored, machine).          *)
(*                                                                         *)
(* A string is a sequence of one-character strings.  Offsets into a string *)
(* are 0-based as in Python; s[i+1] is the character at offset i.          *)
(***************************************************************************)
EXTENDS Integers, Sequences, FiniteSets, TLC

\* ------------------------------------------------------------------ bounds
\* Longest pattern argument, in pattern characters.
MaxPat == 2
\* Longest line body (the characters before the line terminator).
MaxLen == 3
\* Most file arguments on a command line.
MaxFiles == 2
\* Most lines one source delivers.
MaxLines == 2

\* ------------------------------------------------------------- constants
RESET_SEQ == <<"ESC", "[", "0", "m">>
COLOR_SEQ == <<"ESC", "[", "9", "5", "m">>
UNDERSCORE_CHARACTER == "^"

\* Characters of input lines (ASCII input is assumed by the program).
LineChars == {"a", "b", " "}
\* The characters str.rstrip() removes, among those that occur here.
Whitespace == {" ", "\n"}
\* Pattern characters: three atoms (two literals, the dot) and two quantifiers.
AtomChars == {"a", " ", "."}
Quantifiers == {"*", "+"}
PatternChars == AtomChars \cup Quantifiers

\* ---------------------------------------------------------- Python strings
\* All strings over the character set cs of length 0..n.
RECURSIVE Strings(_, _)
Strings(cs, n) ==
    IF n = 0 THEN {<<>>}
    ELSE LET shorter == Strings(cs, n - 1)
         IN  shorter \cup {Append(s, c) : s \in {t \in shorter : Len(t) = n - 1}, c \in cs}

\* s[b:e]
Slice(s, b, e) == SubSeq(s, b + 1, IF e < Len(s) THEN e ELSE Len(s))

\* n * c
Repeat(c, n) == [i \in 1..n |-> c]

\* s.rstrip()
RECURSIVE RStrip(_)
RStrip(s) ==
    IF s # <<>> /\ s[Len(s)] \in Whitespace
    THEN RStrip(SubSeq(s, 1, Len(s) - 1))
    ELSE s

\* ' '.join(parts)
RECURSIVE JoinSpace(_)
JoinSpace(parts) ==
    IF parts = <<>> THEN <<>>
    ELSE IF Len(parts) = 1 THEN parts[1]
    ELSE parts[1] \o <<" ">> \o JoinSpace(Tail(parts))

\* ':'.join(parts)
RECURSIVE JoinColon(_)
JoinColon(parts) ==
    IF parts = <<>> THEN <<>>
    ELSE IF Len(parts) = 1 THEN parts[1]
    ELSE parts[1] \o <<":">> \o JoinColon(Tail(parts))

DigitChar == <<"0", "1", "2", "3", "4", "5", "6", "7", "8", "9">>

\* str(n) for n >= 0
RECURSIVE Str(_)
Str(n) ==
    IF n < 10 THEN <<DigitChar[n + 1]>>
    ELSE Append(Str(n \div 10), DigitChar[(n % 10) + 1])

\* '{:4d}'.format(n): the decimal digits, right-aligned in a field of 4.
Format4d(n) ==
    LET d == Str(n)
    IN  IF Len(d) >= 4 THEN d ELSE Repeat(" ", 4 - Len(d)) \o d

\* ------------------------------------------------------------ the re module
\* re.compile(regexp) succeeds: a quantifier needs an atom right before it
\* ("nothing to repeat" / "multiple repeat" otherwise).
Compiles(regexp) ==
    \A i \in 1..Len(regexp) :
        regexp[i] \in Quantifiers => (i > 1 /\ regexp[i - 1] \in AtomChars)

\* The compiled pattern: the atoms in order, each with its quantifier
\* ("1" when none follows it).
RECURSIVE ParseFrom(_, _)
ParseFrom(regexp, i) ==
    IF i > Len(regexp) THEN <<>>
    ELSE IF i < Len(regexp) /\ regexp[i + 1] \in Quantifiers
         THEN <<[ch |-> regexp[i], q |-> regexp[i + 1]]>> \o ParseFrom(regexp, i + 2)
         ELSE <<[ch |-> regexp[i], q |-> "1"]>> \o ParseFrom(regexp, i + 1)

Atoms(regexp) == ParseFrom(regexp, 1)

\* Does the atom character ch accept the character c?  The dot accepts
\* everything but a newline.
Accepts(ch, c) == IF ch = "." THEN c # "\n" ELSE c = ch

\* How many characters from offset pos on the atom ch accepts, at most limit.
RECURSIVE MaxRun(_, _, _, _)
MaxRun(ch, s, pos, limit) ==
    IF limit = 0 \/ pos >= Len(s) \/ ~Accepts(ch, s[pos + 1]) THEN 0
    ELSE 1 + MaxRun(ch, s, pos + 1, limit - 1)

\* Greedy matching with backtracking of atoms[k..] at offset pos: the end
\* offset of the match the engine finds first, or -1.
RECURSIVE MatchHere(_, _, _, _)
RECURSIVE TryRepeat(_, _, _, _, _, _)
TryRepeat(atoms, k, s, pos, n, least) ==
    IF n < least THEN -1
    ELSE LET r == MatchHere(atoms, k + 1, s, pos + n)
         IN  IF r # -1 THEN r ELSE TryRepeat(atoms, k, s, pos, n - 1, least)

MatchHere(atoms, k, s, pos) ==
    IF k > Len(atoms) THEN pos
    ELSE LET a == atoms[k]
             most == MaxRun(a.ch, s, pos, IF a.q = "1" THEN 1 ELSE Len(s))
             least == IF a.q = "*" THEN 0 ELSE 1
         IN  TryRepeat(atoms, k, s, pos, most, least)

\* Mutant of Search: the scan also tries the offset behind the end of s.
RECURSIVE SearchPastEnd(_, _, _)
SearchPastEnd(atoms, s, start) ==
    IF start > Len(s) + 1 THEN <<-1, -1>>
    ELSE LET e == MatchHere(atoms, 1, s, start)
         IN  IF e # -1 THEN <<start, e>> ELSE SearchPastEnd(atoms, s, start + 1)

\* The leftmost match at or after offset start: <<start, end>>, or <<-1, -1>>.
RECURSIVE Search(_, _, _)
Search(atoms, s, start) ==
    IF start > Len(s) THEN <<-1, -1>>
    ELSE LET e == MatchHere(atoms, 1, s, start)
         IN  IF e # -1 THEN <<start, e>> ELSE Search(atoms, s, start + 1)

\* Mutant of Resume: the scan resumes one character after the start of the
\* match, so that matches may overlap.
ResumeOverlapping(m) == m[1] + 1

\* Where the scanner resumes after the match m: at its end, or one
\* character further when the match was empty.
Resume(m) == IF m[2] = m[1] THEN m[2] + 1 ELSE m[2]

\* [_ for _ in re.finditer(regexp, line)]: the match objects, in the order
\* the scanner finds them.
RECURSIVE FindFrom(_, _, _)
FindFrom(atoms, line, start) ==
    LET m == Search(atoms, line, start)
    IN  IF m[1] = -1 THEN <<>>
        ELSE <<[start |-> m[1], end |-> m[2], string |-> line]>>
             \o FindFrom(atoms, line, Resume(m))

FindIter(regexp, line) == FindFrom(Atoms(regexp), line, 0)

\* re.sub("(" + regexp + ")", start_seq + r'\1' + end_seq, line), as the
\* interpreter the script is written for (Python 2) does it: group 1 is
\* the whole match.  i is the end of the text copied so far and n the number
\* of replacements made; an empty match at the place the previous replacement
\* ended is ignored.
RECURSIVE SubFrom(_, _, _, _, _, _, _)
SubFrom(atoms, line, start, i, n, start_seq, end_seq) ==
    LET m == Search(atoms, line, start)
    IN  IF m[1] = -1 THEN Slice(line, i, Len(line))
        ELSE IF i = m[1] /\ i = m[2] /\ n > 0
             THEN SubFrom(atoms, line, Resume(m), i, n, start_seq, end_seq)
             ELSE Slice(line, i, m[1])
                  \o start_seq \o Slice(line, m[1], m[2]) \o end_seq
                  \o SubFrom(atoms, line, Resume(m), m[2], n + 1, start_seq, end_seq)

Sub(regexp, start_seq, end_seq, line) ==
    SubFrom(Atoms(regexp), line, 0, 0, 0, start_seq, end_seq)

\* ------------------------------------------------------------ the renderers
\* Each operator gives what the print statements of one show_line call
\* print, one entry per print.
\* PlainOutput.show_line: what its one print statement prints.
PlainShowLine(f_name, line_no, ms) ==
    <<RStrip(JoinSpace(<<f_name, Format4d(line_no), ms[1].string>>))>>

\* HighlightedOutput.show_line
HighlightedShowLine(re_arg, f_name, line_no, ms) ==
    LET highlighted == Sub(re_arg, COLOR_SEQ, RESET_SEQ, ms[1].string)
    IN  <<RStrip(JoinSpace(<<f_name, Format4d(line_no), highlighted>>))>>

\* occurencies: the span boundaries start0, end0, start1, end1, ... after a
\* leading 0.
RECURSIVE Flatten(_)
Flatten(ms) ==
    IF ms = <<>> THEN <<>>
    ELSE <<ms[1].start, ms[1].end>> \o Flatten(Tail(ms))

\* Mutant of Occurencies: the leading 0 is not inserted.
OccurenciesNoZero(ms) == Flatten(ms)

Occurencies(ms) == <<0>> \o Flatten(ms)

LengthsOfMatches(ms) ==
    LET occ == Occurencies(ms)
    IN  [x \in 1..(Len(occ) - 1) |-> occ[x + 1] - occ[x]]

\* underlines, as built by the loop over lengths_of_matches (i is 0-based
\* in the code: the run at an odd i is a match, at an even i a gap).
RECURSIVE UnderlinesFrom(_, _)
UnderlinesFrom(lengths, k) ==
    IF k > Len(lengths) THEN <<>>
    ELSE Repeat(IF (k - 1) % 2 = 1 THEN UNDERSCORE_CHARACTER ELSE " ", lengths[k])
         \o UnderlinesFrom(lengths, k + 1)

Underlines(ms) == UnderlinesFrom(LengthsOfMatches(ms), 1)

LinePrefix(f_name, line_no) == JoinSpace(<<f_name, Format4d(line_no), <<>>>>)

\* [s[x:x + w] for x in range(0, len(s), w)], for w > 0
Splits(s, w) ==
    [k \in 1..((Len(s) + w - 1) \div w) |-> Slice(s, (k - 1) * w, (k - 1) * w + w)]

\* Mutant of PrintSplits: a marker chunk is printed whenever it exists, also
\* when it holds nothing but spaces.
RECURSIVE PrintSplitsNoSuppress(_, _, _)
PrintSplitsNoSuppress(line_splits, underline_splits, k) ==
    IF k > Len(line_splits) THEN <<>>
    ELSE <<RStrip(line_splits[k])>>
         \o (IF k <= Len(underline_splits)
             THEN <<RStrip(underline_splits[k])>>
             ELSE <<>>)
         \o PrintSplitsNoSuppress(line_splits, underline_splits, k + 1)

\* The prints of the loop over line_splits, from chunk k on.
RECURSIVE PrintSplits(_, _, _)
PrintSplits(line_splits, underline_splits, k) ==
    IF k > Len(line_splits) THEN <<>>
    ELSE <<RStrip(line_splits[k])>>
         \o (IF k <= Len(underline_splits) /\ Len(RStrip(underline_splits[k])) > 0
             THEN <<RStrip(underline_splits[k])>>
             ELSE <<>>)
         \o PrintSplits(line_splits, underline_splits, k + 1)

\* UnderscoreOutput.show_line, for a terminal width w > 0
UnderscoreShowLine(w, f_name, line_no, ms) ==
    LET line_prefix == LinePrefix(f_name, line_no)
        underline_prefix == Repeat(" ", Len(line_prefix))
        full_line == line_prefix \o ms[1].string
        underlines == underline_prefix \o Underlines(ms)
    IN  PrintSplits(Splits(full_line, w), Splits(underlines, w), 1)

\* Mutant of MachineShowLine: the record carries the end offset of the span.
MachineShowLineEndPos(f_name, line_no, ms) ==
    [k \in 1..Len(ms) |->
        JoinColon(<<f_name, Str(line_no), Str(ms[k].end),
                    Slice(ms[k].string, ms[k].start, ms[k].end)>>)]

\* MachineOutput.show_line: one print per match
MachineShowLine(f_name, line_no, ms) ==
    [k \in 1..Len(ms) |->
        JoinColon(<<f_name, Str(line_no), Str(ms[k].start),
                    Slice(ms[k].string, ms[k].start, ms[k].end)>>)]

\* ------------------------------------------------------------- the program
VARIABLES
    options,    \* the parsed option flags
    argv,       \* the positional arguments of the command line (never changes)
    args,       \* the list parse_args returned; the pattern is popped off it
    regexp,     \* args[0], once assigned
    output,     \* the class of out.output, "" before Output(...) is built
    width,      \* UnderscoreOutput.width; -1 where there is no such attribute
    files,      \* fileinput: the sources not yet started
    filename,   \* fileinput.filename(); <<>> before the first source
    filelineno, \* fileinput.filelineno()
    isopen,     \* fileinput holds an open source
    line,       \* the loop variable
    matches,    \* the list built from re.finditer
    stdout,     \* what the print statements printed, one entry per print
    stderr,     \* what went to standard error, one entry per message
    pc,         \* where the script is
    status,     \* the exit status; -1 while the script runs
    opened,     \* history: the sources opened so far, in order
    scanned,    \* history: the lines read so far, each with its source's rank
    calls       \* history: the out.show(...) calls so far with what each printed

vars == <<options, argv, args, regexp, output, width, files, filename, filelineno,
          isopen, line, matches, stdout, stderr, pc, status, opened, scanned, calls>>

\* File arguments: a file name, and the name that stands for standard input.
FileNames == {<<"f">>, <<"-">>}
STDIN_NAME == <<"<", "s", "t", "d", "i", "n", ">">>
\* Terminal widths the TIOCGWINSZ query may report.
Widths == {0, 4, 9}

\* Inputs of whole runs: a literal, a pattern that matches the empty string,
\* and one that does not compile; a line with an "a" and one without.
RunPatterns == {<<"a">>, <<"a", "*">>, <<"*">>}
RunLines == {<<"a", "\n">>, <<"b", "\n">>}

\* Inputs of single-line runs: every pattern that compiles and every line,
\* with or without its terminator, up to the bounds.
Patterns == {p \in Strings(PatternChars, MaxPat) : Compiles(p)}
Lines == {Append(b, "\n") : b \in Strings(LineChars, MaxLen)}
         \cup (Strings(LineChars, MaxLen) \ {<<>>})

OptionSets == [underscore : BOOLEAN, color : BOOLEAN, machine : BOOLEAN]

\* options.underscore + options.color + options.machine
OptionSum(o) ==
    (IF o.underscore THEN 1 ELSE 0) + (IF o.color THEN 1 ELSE 0)
    + (IF o.machine THEN 1 ELSE 0)

Start(o, a) ==
    /\ options = o
    /\ argv = a
    /\ args = a
    /\ regexp = <<>>
    /\ output = ""
    /\ width = -1
    /\ files = <<>>
    /\ filename = <<>>
    /\ filelineno = 0
    /\ isopen = FALSE
    /\ line = <<>>
    /\ matches = <<>>
    /\ stdout = <<>>
    /\ stderr = <<>>
    /\ pc = "start"
    /\ status = -1
    /\ opened = <<>>
    /\ scanned = <<>>
    /\ calls = <<>>

\* Any command line: any flags, no positional argument or a pattern and files.
Init ==
    \E o \in OptionSets :
    \E a \in {<<>>} \cup {<<p>> \o fs : p \in RunPatterns, fs \in Strings(FileNames, MaxFiles)} :
        Start(o, a)

\* A command line that passes validation, with one file.
InitRender ==
    \E o \in {x \in OptionSets : OptionSum(x) <= 1} :
    \E p \in Patterns :
        Start(o, <<p, <<"f">>>>)

Exit(code) == pc' = "exit" /\ status' = code

\* ----- validation (lines 163-177)
\* parser.error(...): the message goes to standard error, exit status 2.
OptionsConflict ==
    /\ pc = "start"
    /\ OptionSum(options) > 1
    /\ stderr' = Append(stderr, "Options -u(--underscore), -c(--color), -m(--machine) are mutually exclusive.")
    /\ Exit(2)
    /\ UNCHANGED <<options, argv, args, regexp, output, width, files, filename,
                   filelineno, isopen, line, matches, stdout, opened, scanned, calls>>

MissingPattern ==
    /\ pc = "start"
    /\ OptionSum(options) <= 1
    /\ Len(args) < 1
    /\ stderr' = Append(stderr, "Regular expression is mandatory")
    /\ Exit(2)
    /\ UNCHANGED <<options, argv, args, regexp, output, width, files, filename,
                   filelineno, isopen, line, matches, stdout, opened, scanned, calls>>

\* Mutant of InvalidPattern: the message is printed but the script goes on.
InvalidPatternNoExit ==
    /\ pc = "start"
    /\ OptionSum(options) <= 1
    /\ Len(args) >= 1
    /\ ~Compiles(args[1])
    /\ regexp' = args[1]
    /\ args' = Tail(args)
    /\ stdout' = Append(stdout, <<"Invalid regular expression: \"">> \o args[1] \o <<"\". Exiting">>)
    /\ pc' = "construct"
    /\ UNCHANGED <<options, argv, output, width, files, filename, filelineno,
                   isopen, line, matches, stderr, status, opened, scanned, calls>>

\* re.compile raises re.error: the message is printed, sys.exit(2).
InvalidPattern ==
    /\ pc = "start"
    /\ OptionSum(options) <= 1
    /\ Len(args) >= 1
    /\ ~Compiles(args[1])
    /\ regexp' = args[1]
    /\ stdout' = Append(stdout, <<"Invalid regular expression: \"">> \o args[1] \o <<"\". Exiting">>)
    /\ Exit(2)
    /\ UNCHANGED <<options, argv, args, output, width, files, filename,
                   filelineno, isopen, line, matches, stderr, opened, scanned, calls>>

\* The pattern compiles: args.pop(0) leaves the list of files.
Validated ==
    /\ pc = "start"
    /\ OptionSum(options) <= 1
    /\ Len(args) >= 1
    /\ Compiles(args[1])
    /\ regexp' = args[1]
    /\ args' = Tail(args)
    /\ pc' = "construct"
    /\ UNCHANGED <<options, argv, output, width, files, filename, filelineno,
                   isopen, line, matches, stdout, stderr, status, opened, scanned, calls>>

\* ----- Output(options, regexp) (lines 132-144), then fileinput.input(args)
\* fileinput.input(args): the files, or standard input when there are none.
StartInput ==
    /\ files' = IF args = <<>> THEN <<<<"-">>>> ELSE args
    /\ pc' = "input"
    /\ UNCHANGED <<options, argv, args, regexp, filename, filelineno, isopen, line,
                   matches, stdout, stderr, status, opened, scanned, calls>>

MakeMachine ==
    /\ pc = "construct"
    /\ options.machine
    /\ output' = "MachineOutput"
    /\ width' = width
    /\ StartInput

MakeHighlighted ==
    /\ pc = "construct"
    /\ ~options.machine /\ options.color
    /\ output' = "HighlightedOutput"
    /\ width' = width
    /\ StartInput

\* UnderscoreOutput.__init__: the TIOCGWINSZ query on descriptor 1 answers w.
MakeUnderscore(w) ==
    /\ pc = "construct"
    /\ ~options.machine /\ ~options.color /\ options.underscore
    /\ output' = "UnderscoreOutput"
    /\ width' = w
    /\ StartInput

\* The query fails (descriptor 1 is no terminal): fcntl.ioctl raises IOError
\* in Output(...), which line 179 calls outside the try block.  The
\* interpreter prints the traceback and exits with status 1.
TerminalSizeFails ==
    /\ pc = "construct"
    /\ ~options.machine /\ ~options.color /\ options.underscore
    /\ stderr' = Append(stderr, "Traceback: IOError in _terminal_size")
    /\ Exit(1)
    /\ UNCHANGED <<options, argv, args, regexp, output, width, files, filename,
                   filelineno, isopen, line, matches, stdout, opened, scanned, calls>>

MakePlain ==
    /\ pc = "construct"
    /\ ~options.machine /\ ~options.color /\ ~options.underscore
    /\ output' = "PlainOutput"
    /\ width' = width
    /\ StartInput

\* ----- for line in fileinput.input(args) (line 181)
\* Mutant of OpenFile: the per-source line counter is not reset.
OpenFileNoReset ==
    /\ pc = "input"
    /\ ~isopen
    /\ files # <<>>
    /\ filename' = IF Head(files) = <<"-">> THEN STDIN_NAME ELSE Head(files)
    /\ files' = Tail(files)
    /\ isopen' = TRUE
    /\ opened' = Append(opened, Head(files))
    /\ UNCHANGED <<options, argv, args, regexp, output, width, filelineno, line,
                   matches, stdout, stderr, pc, status, scanned, calls>>

\* The next source opens: "-" is standard input, named <stdin>.
OpenFile ==
    /\ pc = "input"
    /\ ~isopen
    /\ files # <<>>
    /\ filename' = IF Head(files) = <<"-">> THEN STDIN_NAME ELSE Head(files)
    /\ files' = Tail(files)
    /\ filelineno' = 0
    /\ isopen' = TRUE
    /\ opened' = Append(opened, Head(files))
    /\ UNCHANGED <<options, argv, args, regexp, output, width, line, matches,
                   stdout, stderr, pc, status, scanned, calls>>

\* Mutant of OpenFails: the message names the source fileinput had before.
OpenFailsStaleName ==
    /\ pc = "input"
    /\ ~isopen
    /\ files # <<>>
    /\ Head(files) # <<"-">>
    /\ files' = Tail(files)
    /\ filelineno' = 0
    /\ stdout' = Append(stdout, <<"Error. File not found: ">> \o filename \o <<". Exiting">>)
    /\ Exit(1)
    /\ UNCHANGED <<options, argv, args, regexp, output, width, filename, isopen,
                   line, matches, stderr, opened, scanned, calls>>

\* open() raises IOError: the except clause prints the message, sys.exit(1).
\* fileinput has set its file name before it calls open().
OpenFails ==
    /\ pc = "input"
    /\ ~isopen
    /\ files # <<>>
    /\ Head(files) # <<"-">>
    /\ filename' = Head(files)
    /\ files' = Tail(files)
    /\ filelineno' = 0
    /\ stdout' = Append(stdout, <<"Error. File not found: ">> \o Head(files) \o <<". Exiting">>)
    /\ Exit(1)
    /\ UNCHANGED <<options, argv, args, regexp, output, width, isopen, line,
                   matches, stderr, opened, scanned, calls>>

\* The open source delivers its next line l.  A line without a terminator
\* can only be the last line of its source.
ReadLine(l) ==
    /\ pc = "input"
    /\ isopen
    /\ filelineno < MaxLines
    /\ filelineno > 0 => line[Len(line)] = "\n"
    /\ line' = l
    /\ filelineno' = filelineno + 1
    /\ scanned' = Append(scanned, [source |-> Len(opened), line |-> l])
    /\ pc' = "match"
    /\ UNCHANGED <<options, argv, args, regexp, output, width, files, filename,
                   isopen, matches, stdout, stderr, status, opened, calls>>

\* The open source is at its end: fileinput closes it and moves on.
EndOfFile ==
    /\ pc = "input"
    /\ isopen
    /\ isopen' = FALSE
    /\ UNCHANGED <<options, argv, args, regexp, output, width, files, filename,
                   filelineno, line, matches, stdout, stderr, pc, status, opened,
                   scanned, calls>>

\* No source is left: the loop ends and so does the script.
Finish ==
    /\ pc = "input"
    /\ ~isopen
    /\ files = <<>>
    /\ Exit(0)
    /\ UNCHANGED <<options, argv, args, regexp, output, width, files, filename,
                   filelineno, isopen, line, matches, stdout, stderr, opened,
                   scanned, calls>>

\* ----- the loop body (lines 182-184)
Match ==
    /\ pc = "match"
    /\ matches' = FindIter(regexp, line)
    /\ pc' = IF Len(matches') > 0 THEN "show" ELSE "input"
    /\ UNCHANGED <<options, argv, args, regexp, output, width, files, filename,
                   filelineno, isopen, line, stdout, stderr, status, opened,
                   scanned, calls>>

\* out.show(fileinput.filename(), fileinput.filelineno(), matches) printed
\* the entries of printed.
Show(printed) ==
    /\ stdout' = stdout \o printed
    /\ calls' = Append(calls, [f_name |-> filename, line_no |-> filelineno,
                               matches |-> matches, read |-> Len(scanned),
                               printed |-> printed])
    /\ pc' = "input"
    /\ UNCHANGED <<options, argv, args, regexp, output, width, files, filename,
                   filelineno, isopen, line, matches, stderr, status, opened, scanned>>

ShowPlain ==
    /\ pc = "show"
    /\ output = "PlainOutput"
    /\ Show(PlainShowLine(filename, filelineno, matches))

ShowHighlighted ==
    /\ pc = "show"
    /\ output = "HighlightedOutput"
    /\ Show(HighlightedShowLine(regexp, filename, filelineno, matches))

ShowUnderscore ==
    /\ pc = "show"
    /\ output = "UnderscoreOutput"
    /\ width > 0
    /\ Show(UnderscoreShowLine(width, filename, filelineno, matches))

\* A reported width of 0: range(0, len(line), 0) raises ValueError, which the
\* except IOError clause does not catch.
ShowUnderscoreZeroWidth ==
    /\ pc = "show"
    /\ output = "UnderscoreOutput"
    /\ width = 0
    /\ stderr' = Append(stderr, "Traceback: ValueError in show_line")
    /\ Exit(1)
    /\ UNCHANGED <<options, argv, args, regexp, output, width, files, filename,
                   filelineno, isopen, line, matches, stdout, opened, scanned, calls>>

ShowMachine ==
    /\ pc = "show"
    /\ output = "MachineOutput"
    /\ Show(MachineShowLine(filename, filelineno, matches))

Next ==
    \/ OptionsConflict
    \/ MissingPattern
    \/ InvalidPattern
    \/ Validated
    \/ MakeMachine
    \/ MakeHighlighted
    \/ \E w \in Widths : MakeUnderscore(w)
    \/ TerminalSizeFails
    \/ MakePlain
    \/ OpenFile
    \/ OpenFails
    \/ \E l \in RunLines : ReadLine(l)
    \/ EndOfFile
    \/ Finish
    \/ Match
    \/ ShowPlain
    \/ ShowHighlighted
    \/ ShowUnderscore
    \/ ShowUnderscoreZeroWidth
    \/ ShowMachine

Spec == Init /\ [][Next]_vars

\* Runs over one file that deliver one line, of any content within the bounds.
NextRender ==
    \/ Validated
    \/ MakeMachine
    \/ MakeHighlighted
    \/ \E w \in Widths : MakeUnderscore(w)
    \/ MakePlain
    \/ OpenFile
    \/ \E l \in Lines : filelineno = 0 /\ ReadLine(l)
    \/ EndOfFile
    \/ Finish
    \/ Match
    \/ ShowPlain
    \/ ShowHighlighted
    \/ ShowUnderscore
    \/ ShowUnderscoreZeroWidth
    \/ ShowMachine

SpecRender == InitRender /\ [][NextRender]_vars

\* ---------------------------------------------------------------- claims
\* Everything the out.show(...) calls printed, in order.
RECURSIVE AllPrinted(_)
AllPrinted(cs) ==
    IF cs = <<>> THEN <<>> ELSE cs[1].printed \o AllPrinted(Tail(cs))

\* The offset i of the line lies in one of the spans of ms.
Covered(ms, i) == \E k \in 1..Len(ms) : ms[k].start <= i /\ i < ms[k].end

\* The text of a span, read off the line character by character.
SpanText(m) == [j \in 1..(m.end - m.start) |-> m.string[m.start + j]]

\* C1: in machine mode every call of show_line prints exactly one record per
\* match, in the order of the matches, and the k-th record is
\* source_name:line_number:start_offset:matched_text of the k-th match.
C1_MachineRecords ==
    output = "MachineOutput" =>
        /\ stdout = AllPrinted(calls)
        /\ \A c \in 1..Len(calls) :
             LET r == calls[c]
             IN  /\ Len(r.printed) = Len(r.matches)
                 /\ \A k \in 1..Len(r.matches) :
                      r.printed[k] =
                          r.f_name \o <<":">> \o Str(r.line_no) \o <<":">>
                          \o Str(r.matches[k].start) \o <<":">> \o SpanText(r.matches[k])

\* A machine-mode call with two matches, the first not at the line start.
C1_Witness ==
    /\ output = "MachineOutput"
    /\ \E c \in 1..Len(calls) :
         /\ Len(calls[c].matches) = 2
         /\ calls[c].matches[1].start = 1
         /\ calls[c].matches[1].end = 2
         /\ Len(calls[c].printed) = 2

\* s without the marker sequences COLOR_SEQ and RESET_SEQ.
RECURSIVE StripMarkers(_)
StripMarkers(s) ==
    IF s = <<>> THEN <<>>
    ELSE IF Len(s) >= Len(COLOR_SEQ) /\ SubSeq(s, 1, Len(COLOR_SEQ)) = COLOR_SEQ
         THEN StripMarkers(SubSeq(s, Len(COLOR_SEQ) + 1, Len(s)))
    ELSE IF Len(s) >= Len(RESET_SEQ) /\ SubSeq(s, 1, Len(RESET_SEQ)) = RESET_SEQ
         THEN StripMarkers(SubSeq(s, Len(RESET_SEQ) + 1, Len(s)))
    ELSE <<s[1]>> \o StripMarkers(Tail(s))

\* C2: in highlighted mode, what show_line prints is, once the markers are
\* removed, exactly what plain mode prints for the same request.
C2_HighlightedStripsToPlain ==
    output = "HighlightedOutput" =>
        \A c \in 1..Len(calls) :
            LET r == calls[c]
            IN  /\ Len(r.printed) = 1
                /\ StripMarkers(r.printed[1])
                       = RStrip(r.f_name \o <<" ">> \o Format4d(r.line_no) \o <<" ">>
                                \o r.matches[1].string)

\* The marker line the claim describes: a marker at every covered offset, a
\* space elsewhere, up to the end of the last span.
MarkerLine(ms) ==
    [i \in 1..ms[Len(ms)].end |->
        IF Covered(ms, i - 1) THEN UNDERSCORE_CHARACTER ELSE " "]

\* C3: in underscore mode the marker string show_line builds, before it is
\* prefixed and wrapped, has "^" at every offset a span covers, a space at
\* every other offset, and ends at the end of the last span.
C3_MarkerString ==
    output = "UnderscoreOutput" =>
        \A c \in 1..Len(calls) :
            LET ms == calls[c].matches
                u == Underlines(ms)
            IN  /\ Len(u) = ms[Len(ms)].end
                /\ \A i \in 0..(Len(u) - 1) :
                     u[i + 1] = IF Covered(ms, i) THEN "^" ELSE " "

\* An underscore call with two matches, a gap between them and an unmatched
\* rest after the second.
C3_Witness ==
    /\ output = "UnderscoreOutput"
    /\ \E c \in 1..Len(calls) :
         LET ms == calls[c].matches
         IN  /\ Len(ms) = 2
             /\ ms[1].start < ms[1].end
             /\ ms[1].end < ms[2].start
             /\ ms[2].start < ms[2].end
             /\ ms[2].end < Len(ms[2].string)

\* Chunk i (from 0) of s cut every w characters, and the number of chunks.
Chunk(s, w, i) ==
    [j \in 1..(IF Len(s) - i * w < w THEN Len(s) - i * w ELSE w) |-> s[i * w + j]]

NChunks(s, w) == (Len(s) + w - 1) \div w

\* The prefixed content line and the prefixed marker line of a call.
ContentLine(r) == r.f_name \o <<" ">> \o Format4d(r.line_no) \o <<" ">> \o r.matches[1].string

PrefixedMarkerLine(r) ==
    [j \in 1..(Len(r.f_name) + 6) |-> " "] \o MarkerLine(r.matches)

HasMarker(chunk) == \E j \in 1..Len(chunk) : chunk[j] = UNDERSCORE_CHARACTER

\* Marker chunk i of the call r exists and holds a marker character.
MarkerShown(r, w, i) ==
    /\ i < NChunks(PrefixedMarkerLine(r), w)
    /\ HasMarker(Chunk(PrefixedMarkerLine(r), w, i))

\* The output the claim describes for the chunks i, i+1, ...
RECURSIVE WrappedFrom(_, _, _)
WrappedFrom(r, w, i) ==
    IF i >= NChunks(ContentLine(r), w) THEN <<>>
    ELSE <<RStrip(Chunk(ContentLine(r), w, i))>>
         \o (IF MarkerShown(r, w, i)
             THEN <<RStrip(Chunk(PrefixedMarkerLine(r), w, i))>>
             ELSE <<>>)
         \o WrappedFrom(r, w, i + 1)

\* The place in the output of the content chunk i: one entry per earlier
\* content chunk and one per earlier marker chunk that is shown.
RowOfChunk(r, w, i) ==
    i + Cardinality({k \in 0..(i - 1) : MarkerShown(r, w, k)}) + 1

\* C9: with a terminal width W > 0 the prefixed content line and the prefixed
\* marker line are cut into chunks of W characters; the output is, chunk by
\* chunk, the content chunk followed by its marker chunk exactly when that
\* marker chunk exists and holds a marker character (both as emitted, that is
\* without trailing whitespace).  No marker chunk lacks its content chunk,
\* and every marker of the unwrapped marker line stands in the output in the
\* row after the content chunk of the character it marks, in that
\* character's column.
C9_UnderscoreWrapping ==
    (output = "UnderscoreOutput" /\ width > 0) =>
        \A c \in 1..Len(calls) :
            LET r == calls[c]
                L == ContentLine(r)
                U == PrefixedMarkerLine(r)
            IN  /\ r.printed = WrappedFrom(r, width, 0)
                /\ NChunks(U, width) <= NChunks(L, width)
                /\ \A p \in 1..Len(U) :
                     U[p] = UNDERSCORE_CHARACTER =>
                         LET i == (p - 1) \div width
                             col == ((p - 1) % width) + 1
                             row == RowOfChunk(r, width, i)
                         IN  /\ row + 1 <= Len(r.printed)
                             /\ r.printed[row] = RStrip(Chunk(L, width, i))
                             /\ Len(r.printed[row + 1]) >= col
                             /\ r.printed[row + 1][col] = UNDERSCORE_CHARACTER
                             /\ Chunk(L, width, i)[col] = L[p]
                             /\ Covered(r.matches, p - 1 - (Len(r.f_name) + 6))

\* A call at width 4 whose content line has three chunks, the first two
\* without a marker row and the third with one.
C9_Witness ==
    /\ output = "UnderscoreOutput"
    /\ width = 4
    /\ \E c \in 1..Len(calls) :
         /\ NChunks(ContentLine(calls[c]), 4) = 3
         /\ Len(calls[c].printed) = 4
         /\ HasMarker(calls[c].printed[4])

\* The sources of the run, in order: the file arguments, or standard input.
Sources == IF Len(argv) <= 1 THEN <<<<"-">>>> ELSE Tail(argv)

\* The script ended in the except IOError clause.
OpenFailed == pc = "exit" /\ status = 1 /\ stderr = <<>>

\* C4: when a source cannot be opened the run prints an error naming that
\* source and exits with status 1; every matching line of the sources before
\* it has been emitted, and no line of the failing source or of a later one
\* has been scanned or emitted.
C4_OpenFailure ==
    OpenFailed =>
        LET k == Len(opened) + 1
        IN  /\ k <= Len(Sources)
            /\ opened = SubSeq(Sources, 1, k - 1)
            /\ stdout # <<>>
            /\ stdout[Len(stdout)] =
                   <<"Error. File not found: ">> \o Sources[k] \o <<". Exiting">>
            /\ SubSeq(stdout, 1, Len(stdout) - 1) = AllPrinted(calls)
            /\ \A j \in 1..Len(scanned) :
                 /\ scanned[j].source < k
                 /\ (FindIter(argv[1], scanned[j].line) # <<>>)
                      <=> (\E c \in 1..Len(calls) : calls[c].read = j)
            /\ \A c \in 1..Len(calls) :
                 /\ calls[c].matches = FindIter(argv[1], scanned[calls[c].read].line)
                 /\ calls[c].printed # <<>>

\* The second source fails to open after the first delivered a matching line.
C4_Witness ==
    /\ OpenFailed
    /\ Len(opened) = 1
    /\ Len(Sources) = 2
    /\ Len(calls) >= 1
    /\ Len(stdout) >= 2

\* C5: in underscore mode the renderer is built whatever the width query
\* answers, and the run goes on to scan: once the script is past the
\* construction of Output, out.output is an UnderscoreOutput.
C5_WidthFallback ==
    (/\ OptionSum(options) = 1
     /\ options.underscore
     /\ argv # <<>>
     /\ Compiles(argv[1])
     /\ pc \notin {"start", "construct"})
        => output = "UnderscoreOutput"

\* C6: the spans of the match list computed for a line are sorted ascending
\* by start offset and do not overlap: each ends at or before the start of
\* the next.
C6_SpansOrdered ==
    \A k \in 1..(Len(matches) - 1) :
        /\ matches[k].start < matches[k + 1].start
        /\ matches[k].end <= matches[k + 1].start

\* A match list of three spans, the first ending where the second begins.
C6_Witness ==
    /\ pc = "show"
    /\ Len(matches) = 3
    /\ matches[1].start < matches[1].end
    /\ matches[1].end = matches[2].start

\* The 1-based position of the j-th line read within its own source.
PositionInSource(j) ==
    Cardinality({i \in 1..j : scanned[i].source = scanned[j].source})

\* C7: the line number handed to the renderer is the line's 1-based position
\* within its own source, and the counter of the open source equals the
\* number of lines read from that source, matching or not.
C7_LineNumbers ==
    /\ \A c \in 1..Len(calls) : calls[c].line_no = PositionInSource(calls[c].read)
    /\ isopen =>
         filelineno = Cardinality({i \in 1..Len(scanned) : scanned[i].source = Len(opened)})

\* A second source whose first line is rendered with number 1 after the
\* first source delivered two lines, the first of which did not match.
C7_Witness ==
    /\ Len(opened) = 2
    /\ Len(scanned) = 3
    /\ scanned[1].source = 1 /\ scanned[2].source = 1 /\ scanned[3].source = 2
    /\ Len(calls) = 2
    /\ calls[1].read = 2 /\ calls[1].line_no = 2
    /\ calls[2].read = 3 /\ calls[2].line_no = 1

\* The command line fails validation.
InvalidCommandLine ==
    \/ OptionSum(options) > 1
    \/ argv = <<>>
    \/ ~Compiles(argv[1])

\* C8: a command line with more than one of -u/-c/-m, without a pattern, or
\* with a pattern that does not compile ends the run with a non-zero status
\* (2 for the pattern) before any source is opened and without any rendered
\* match output.
C8_ValidationFirst ==
    InvalidCommandLine =>
        /\ pc \in {"start", "exit"}
        /\ pc = "exit" => status > 0
        /\ (pc = "exit" /\ OptionSum(options) <= 1 /\ argv # <<>>) => status = 2
        /\ opened = <<>>
        /\ filename = <<>>
        /\ files = <<>>
        /\ scanned = <<>>
        /\ calls = <<>>
        /\ \A i \in 1..Len(stdout) :
             stdout[i] = <<"Invalid regular expression: \"">> \o argv[1] \o <<"\". Exiting">>

\* A run with two file arguments that ended on a pattern that does not compile.
C8_Witness ==
    /\ pc = "exit"
    /\ status = 2
    /\ OptionSum(options) <= 1
    /\ Len(argv) = 3
    /\ ~Compiles(argv[1])
    /\ Len(stdout) = 1

\* C10 as stated: every span handed to a renderer has 0 <= start < end <=
\* len(line), so no rendered match is zero-length.
C10_NoZeroLengthSpan ==
    \A c \in 1..Len(calls) :
        \A k \in 1..Len(calls[c].matches) :
            LET m == calls[c].matches[k]
            IN  0 <= m.start /\ m.start < m.end /\ m.end <= Len(m.string)

\* C10 as amended: every span handed to a renderer has 0 <= start <= end <=
\* len(line) and belongs to the line that was read.
C10_SpanWithinLine ==
    \A c \in 1..Len(calls) :
        \A k \in 1..Len(calls[c].matches) :
            LET m == calls[c].matches[k]
            IN  /\ 0 <= m.start /\ m.start <= m.end /\ m.end <= Len(m.string)
                /\ m.string = scanned[calls[c].read].line

\* The pattern a* on the line bbb: the renderer is handed zero-length spans
\* only, the last of them behind the line terminator.
C10_Witness ==
    /\ regexp = <<"a", "*">>
    /\ \E c \in 1..Len(calls) :
         LET ms == calls[c].matches
         IN  /\ ms[1].string = <<"b", "b", "b", "\n">>
             /\ Len(ms) = 5
             /\ \A k \in 1..5 : ms[k].start = k - 1 /\ ms[k].end = k - 1

====
